---- MODULE Spec2Model ----
(***************************************************************************)
(* Session lifecycle of the Agentic CRM front end: AuthService (login,     *)
(* register, logout, updateProfile, changePassword, refreshToken,          *)
(* checkAuth), the refresh timer it arms with setTimeout, the              *)
(* localStorage-backed token store (Utils.storage) and the 401 handling of *)
(* APIService.request (specification Spec); and the application shell of   *)
(* main.js, AgenticCRM: start-up gated on checkAuth, the login screen and  *)
(* the main application, navigation between views and the loading of their *)
(* content (specification RouterSpec, which takes the outcomes of the      *)
(* AuthService calls it awaits as inputs).                                 *)
(*                                                                         *)
(* JavaScript runs the handlers on one thread: a handler runs without      *)
(* interruption up to its `await` of the API call and again from the       *)
(* completion of that call to its return.  Each of those two runs is one   *)
(* action; the calls in flight between them are the bag `inflight`.        *)
(***************************************************************************)
EXTENDS Integers, FiniteSets, Sequences, TLC

\* ---------------------------------------------------------------- bounds
MaxInFlight == 2        \* API calls awaiting their response at one time
MaxTimers == 3          \* setTimeout handles handed out per page load
MaxNavs == 2            \* navigateToView calls awaiting a view's content at one time
MaxLoads == 3           \* runs of one view's loader per page load

\* ------------------------------------------------------------ value sets
Null == "null"                      \* JS null / undefined / a missing field
Tokens == {"T1", "T2"}              \* access_token values a server returns
Users == {"U1", "U2"}               \* user records a server returns
Empty == ""                         \* a value that is not null and is falsy
Truthy(v) == v # Null /\ v # Empty  \* `if (v)` / `v && ...`

TOKEN_KEY == "agentic_crm_token"
USER_KEY == "agentic_crm_user"
Keys == {TOKEN_KEY, USER_KEY}

Unset == -1             \* this.refreshTimer was never assigned (undefined)
NoTimer == 0            \* this.refreshTimer = null

Ops == {"login", "register", "logout", "updateProfile", "changePassword",
        "refresh", "checkAuth"}

VARIABLES
    token,              \* AuthService.token
    currentUser,        \* AuthService.currentUser
    refreshTimer,       \* AuthService.refreshTimer: Unset, NoTimer or a handle
    localStorage,       \* Keys -> item; <<>> is no item, <<v>> is JSON text of v
    pendingTimers,      \* handles scheduled by setTimeout, not fired, not cleared
    nextTimerId,        \* next handle setTimeout returns
    inflight,           \* Ops -> number of calls of that operation awaiting the API
    onLoginPath,        \* window.location.pathname.includes('login')
    navPending,         \* window.location.href was assigned, page not yet replaced
    sess,               \* history of a plain login-then-logout sequence: "in" (a
                        \* login succeeded with nothing else in flight), "leaving"
                        \* (logout called next), "out" (that logout returned);
                        \* "none" as soon as the caller starts anything else
    torn,               \* history: a teardown (clearAuth) has run and no login
                        \* or register has succeeded since
    ev                  \* the step just taken: what was called or returned

VARIABLES
    initPhase,          \* AgenticCRM.init: the await it is suspended at, or "done"
    authResult,         \* what `await auth.checkAuth()` gave init: "none" before
    loginHidden,        \* #login-screen carries the class hidden
    mainHidden,         \* #main-app carries the class hidden
    loadingHidden,      \* #loading-screen carries the class hidden
    hideTimer,          \* hideLoadingScreen's setTimeout is pending
    currentView,        \* AgenticCRM.currentView
    navItem,            \* the view whose .nav-item carries the class active
    active,             \* the views whose .view element carries the class active
    loaded,             \* view -> its element has dataset.loaded === 'true'
    loads,              \* view -> times its loader was started
    navs,               \* view -> navigateToView calls awaiting its loader
    loginPending,       \* LoginForm.handleSubmit awaits auth.login
    logoutPending,      \* UserProfile.handleLogout awaits auth.logout
    rev                 \* the shell's step just taken

avars == <<token, currentUser, refreshTimer, localStorage, pendingTimers,
           nextTimerId, inflight, onLoginPath, navPending, sess, torn, ev>>

rvars == <<initPhase, authResult, loginHidden, mainHidden, loadingHidden,
           hideTimer, currentView, navItem, active, loaded, loads, navs,
           loginPending, logoutPending, rev>>

vars == <<avars, rvars>>

\* ------------------------------------------------ Utils.storage (utils.js)
NoItem == <<>>
stringify(v) == <<v>>
parse(item) == item[1]

storageGet(ls, key) == IF ls[key] # NoItem THEN parse(ls[key]) ELSE Null
storageSet(ls, key, value) == [ls EXCEPT ![key] = stringify(value)]
storageRemove(ls, key) == [ls EXCEPT ![key] = NoItem]

\* ------------------------------------------------------- API responses
\* kind "ok": fetch resolved with a 2xx and a JSON body; "401": HTTP 401;
\* "error": any other HTTP error or a network failure.
Response(k, t, u) == [kind |-> k, access_token |-> t, user |-> u]
Failures == {Response("401", Null, Null), Response("error", Null, Null)}
AuthResponses == {Response("ok", t, u) : t \in Tokens \cup {Null, Empty},
                                         u \in Users \cup {Null}} \cup Failures
RefreshResponses == {Response("ok", t, Null) : t \in Tokens \cup {Null, Empty}} \cup Failures
ProfileResponses == {Response("ok", Null, u) : u \in Users \cup {Null}} \cup Failures
VoidResponses == {Response("ok", Null, Null)} \cup Failures
NoResponse == Response("none", Null, Null)

\* ------------------------------------------- the handlers' working state
\* A handler run threads one record through the statements it executes:
\* the object's fields, the store, the timers, the location, plus what the
\* run emitted (redirects, notifications).
Ctx == [token |-> token, currentUser |-> currentUser, refreshTimer |-> refreshTimer,
        localStorage |-> localStorage, pendingTimers |-> pendingTimers,
        nextTimerId |-> nextTimerId, onLoginPath |-> onLoginPath,
        navPending |-> navPending, redirects |-> 0, notes |-> <<>>]

\* isAuthenticated that looks at the token alone
isAuthenticated_tokenOnly(c) == Truthy(c.token)

\* isAuthenticated with || in place of &&
isAuthenticated_either(c) == Truthy(c.token) \/ Truthy(c.currentUser)

isAuthenticated(c) == Truthy(c.token) /\ Truthy(c.currentUser)

notify(c, message) == [c EXCEPT !.notes = Append(@, message)]

redirect(c) == [c EXCEPT !.redirects = @ + 1, !.navPending = TRUE]

clearTimeout(c, handle) == [c EXCEPT !.pendingTimers = @ \ {handle}]

\* clearAuth carrying setupTokenRefresh's timer block (clear, then schedule)
\* in place of its own (clear, then null)
clearAuth_armBlock(c) ==
    LET c1 == IF c.refreshTimer > 0 THEN clearTimeout(c, c.refreshTimer) ELSE c
        c2 == IF Truthy(c.token)
              THEN [c1 EXCEPT !.pendingTimers = @ \cup {c1.nextTimerId},
                              !.refreshTimer = c1.nextTimerId,
                              !.nextTimerId = @ + 1]
              ELSE c1
        c3 == [c2 EXCEPT !.token = Null, !.currentUser = Null]
    IN [c3 EXCEPT !.localStorage =
           storageRemove(storageRemove(@, TOKEN_KEY), USER_KEY)]

\* clearAuth that forgets the timer: the fields and the store are cleared,
\* the pending timeout is left running
clearAuth_keepTimer(c) ==
    LET c1 == [c EXCEPT !.token = Null, !.currentUser = Null]
    IN [c1 EXCEPT !.localStorage =
           storageRemove(storageRemove(@, TOKEN_KEY), USER_KEY)]

clearAuth(c) ==
    LET c1 == [c EXCEPT !.token = Null, !.currentUser = Null]
        c2 == [c1 EXCEPT !.localStorage =
                  storageRemove(storageRemove(@, TOKEN_KEY), USER_KEY)]
    IN IF c2.refreshTimer > 0
       THEN [clearTimeout(c2, c2.refreshTimer) EXCEPT !.refreshTimer = NoTimer]
       ELSE c2

\* setupTokenRefresh that schedules without clearing the timer it holds
setupTokenRefresh_noClear(c) ==
    IF ~Truthy(c.token) THEN c
    ELSE [c EXCEPT !.pendingTimers = @ \cup {c.nextTimerId},
                   !.refreshTimer = c.nextTimerId,
                   !.nextTimerId = @ + 1]

setupTokenRefresh(c) ==
    IF ~Truthy(c.token) THEN c
    ELSE LET c1 == IF c.refreshTimer > 0 THEN clearTimeout(c, c.refreshTimer) ELSE c
         IN [c1 EXCEPT !.pendingTimers = @ \cup {c1.nextTimerId},
                       !.refreshTimer = c1.nextTimerId,
                       !.nextTimerId = @ + 1]

\* handleAuthError that redirects without looking at the current path
handleAuthError_always(c) ==
    redirect([c EXCEPT !.localStorage =
                 storageRemove(storageRemove(@, TOKEN_KEY), USER_KEY)])

handleAuthError(c) ==
    LET c1 == [c EXCEPT !.localStorage =
                  storageRemove(storageRemove(@, TOKEN_KEY), USER_KEY)]
    IN IF ~c1.onLoginPath THEN redirect(c1) ELSE c1

\* APIService.request from the completion of fetch on: the state it leaves,
\* whether it throws, and the message of the Error thrown.
request(c, resp) ==
    IF resp.kind = "401"
    THEN [c |-> handleAuthError(c), threw |-> TRUE, message |-> "unauthorized"]
    ELSE IF resp.kind = "error"
    THEN [c |-> c, threw |-> TRUE, message |-> "server"]
    ELSE [c |-> c, threw |-> FALSE, message |-> "none"]

Result(s, u, e) == [success |-> s, user |-> u, error |-> e]
Undefined == Result("undefined", Null, "none")

\* login/register that persist the token and forget to persist the user
authenticate_tokenOnly(c, resp, message) ==
    LET q == request(c, resp) IN
    IF ~q.threw /\ Truthy(resp.access_token) /\ Truthy(resp.user)
    THEN LET c1 == [q.c EXCEPT !.token = resp.access_token, !.currentUser = resp.user]
             c2 == [c1 EXCEPT !.localStorage = storageSet(@, TOKEN_KEY, c1.token)]
             c3 == notify(setupTokenRefresh(c2), message)
         IN [c |-> c3, ret |-> Result("true", c3.currentUser, "none")]
    ELSE LET msg == IF q.threw THEN q.message ELSE "Invalid response format"
         IN [c |-> notify(q.c, "error"), ret |-> Result("false", Null, msg)]

\* login and register after `await api.login(...)` / `await api.register(...)`
authenticate(c, resp, message) ==
    LET q == request(c, resp) IN
    IF ~q.threw /\ Truthy(resp.access_token) /\ Truthy(resp.user)
    THEN LET c1 == [q.c EXCEPT !.token = resp.access_token, !.currentUser = resp.user]
             c2 == [c1 EXCEPT !.localStorage =
                       storageSet(storageSet(@, TOKEN_KEY, c1.token), USER_KEY, c1.currentUser)]
             c3 == notify(setupTokenRefresh(c2), message)
         IN [c |-> c3, ret |-> Result("true", c3.currentUser, "none")]
    ELSE LET msg == IF q.threw THEN q.message ELSE "Invalid response format"
         IN [c |-> notify(q.c, "error"), ret |-> Result("false", Null, msg)]

\* login whose catch block also tears the session down
login_clearOnFailure(c, resp) ==
    LET r == authenticate(c, resp, "login")
    IN IF r.ret.success = "false" THEN [r EXCEPT !.c = clearAuth(r.c)] ELSE r

login(c, resp) == authenticate(c, resp, "login")

register(c, resp) == authenticate(c, resp, "register")

\* logout's finally block
logoutFinally(c) == [c |-> notify(clearAuth(c), "logout"), ret |-> Undefined]

\* logout with the teardown after the call instead of in a finally block
logout_noFinally(c, resp) ==
    LET q == request(c, resp)
    IN IF q.threw THEN [c |-> q.c, ret |-> Undefined] ELSE logoutFinally(q.c)

\* logout after `await api.logout()`
logout(c, resp) == logoutFinally(request(c, resp).c)

\* updateProfile that replaces the in-memory user and does not persist it
updateProfile_noPersist(c, resp) ==
    LET q == request(c, resp) IN
    IF q.threw
    THEN [c |-> notify(q.c, "error"), ret |-> Result("false", Null, q.message)]
    ELSE IF Truthy(resp.user)
    THEN LET c1 == [q.c EXCEPT !.currentUser = resp.user]
         IN [c |-> notify(c1, "updated"), ret |-> Result("true", c1.currentUser, "none")]
    ELSE [c |-> q.c, ret |-> Undefined]

\* updateProfile whose catch block tears the session down
updateProfile_clearOnFailure(c, resp) ==
    LET q == request(c, resp) IN
    IF q.threw
    THEN [c |-> notify(clearAuth(q.c), "error"), ret |-> Result("false", Null, q.message)]
    ELSE IF Truthy(resp.user)
    THEN LET c1 == [q.c EXCEPT !.currentUser = resp.user]
             c2 == [c1 EXCEPT !.localStorage = storageSet(@, USER_KEY, c1.currentUser)]
         IN [c |-> notify(c2, "updated"), ret |-> Result("true", c2.currentUser, "none")]
    ELSE [c |-> q.c, ret |-> Undefined]

\* updateProfile after `await api.updateProfile(data)`
updateProfile(c, resp) ==
    LET q == request(c, resp) IN
    IF q.threw
    THEN [c |-> notify(q.c, "error"), ret |-> Result("false", Null, q.message)]
    ELSE IF Truthy(resp.user)
    THEN LET c1 == [q.c EXCEPT !.currentUser = resp.user]
             c2 == [c1 EXCEPT !.localStorage = storageSet(@, USER_KEY, c1.currentUser)]
         IN [c |-> notify(c2, "updated"), ret |-> Result("true", c2.currentUser, "none")]
    ELSE [c |-> q.c, ret |-> Undefined]

\* changePassword that ends the session once the password is changed
changePassword_logoutOnSuccess(c, resp) ==
    LET q == request(c, resp) IN
    IF q.threw
    THEN [c |-> notify(q.c, "error"), ret |-> Result("false", Null, q.message)]
    ELSE [c |-> notify(clearAuth(q.c), "password"), ret |-> Result("true", Null, "none")]

\* changePassword after `await api.changePassword(data)`
changePassword(c, resp) ==
    LET q == request(c, resp) IN
    IF q.threw
    THEN [c |-> notify(q.c, "error"), ret |-> Result("false", Null, q.message)]
    ELSE [c |-> notify(q.c, "password"), ret |-> Result("true", Null, "none")]

\* refreshToken that replaces the in-memory token and does not persist it
refreshToken_noPersist(c, resp) ==
    LET q == request(c, resp) IN
    IF q.threw
    THEN [c |-> redirect(clearAuth(q.c)), ret |-> Undefined]
    ELSE IF Truthy(resp.access_token)
    THEN [c |-> setupTokenRefresh([q.c EXCEPT !.token = resp.access_token]),
          ret |-> Undefined]
    ELSE [c |-> q.c, ret |-> Undefined]

\* refreshToken after `await api.get('/auth/refresh')`
refreshToken(c, resp) ==
    LET q == request(c, resp) IN
    IF q.threw
    THEN [c |-> redirect(clearAuth(q.c)), ret |-> Undefined]
    ELSE IF Truthy(resp.access_token)
    THEN LET c1 == [q.c EXCEPT !.token = resp.access_token]
             c2 == [c1 EXCEPT !.localStorage = storageSet(@, TOKEN_KEY, c1.token)]
         IN [c |-> setupTokenRefresh(c2), ret |-> Undefined]
    ELSE [c |-> q.c, ret |-> Undefined]

\* checkAuth whose catch block only logs
checkAuth_noClear(c, resp) ==
    LET q == request(c, resp) IN
    IF q.threw
    THEN [c |-> q.c, ret |-> Result("false", Null, "none")]
    ELSE IF Truthy(resp.user)
    THEN LET c1 == [q.c EXCEPT !.currentUser = resp.user]
             c2 == [c1 EXCEPT !.localStorage = storageSet(@, USER_KEY, c1.currentUser)]
         IN [c |-> c2, ret |-> Result("true", Null, "none")]
    ELSE [c |-> q.c, ret |-> Result("false", Null, "none")]

\* checkAuth after `await api.getProfile()`
checkAuth(c, resp) ==
    LET q == request(c, resp) IN
    IF q.threw
    THEN [c |-> clearAuth(q.c), ret |-> Result("false", Null, "none")]
    ELSE IF Truthy(resp.user)
    THEN LET c1 == [q.c EXCEPT !.currentUser = resp.user]
             c2 == [c1 EXCEPT !.localStorage = storageSet(@, USER_KEY, c1.currentUser)]
         IN [c |-> c2, ret |-> Result("true", Null, "none")]
    ELSE [c |-> q.c, ret |-> Result("false", Null, "none")]

\* ------------------------------------------------------------- plumbing
InFlightCount == inflight["login"] + inflight["register"] + inflight["logout"]
                 + inflight["updateProfile"] + inflight["changePassword"]
                 + inflight["refresh"] + inflight["checkAuth"]

Event(op, phase, resp, ret, c, requests) ==
    [op |-> op, phase |-> phase, resp |-> resp, ret |-> ret, timer |-> NoTimer,
     redirects |-> c.redirects, notes |-> c.notes, requests |-> requests]

Apply(c) ==
    /\ token' = c.token
    /\ currentUser' = c.currentUser
    /\ refreshTimer' = c.refreshTimer
    /\ localStorage' = c.localStorage
    /\ pendingTimers' = c.pendingTimers
    /\ nextTimerId' = c.nextTimerId
    /\ onLoginPath' = c.onLoginPath
    /\ navPending' = c.navPending
    /\ UNCHANGED rvars

\* the operation suspends at its await: one request goes out
Call(op) ==
    /\ InFlightCount < MaxInFlight
    /\ inflight' = [inflight EXCEPT ![op] = @ + 1]
    /\ ev' = Event(op, "call", NoResponse, Undefined, Ctx, 1)
    /\ Apply(Ctx)
    /\ UNCHANGED torn

Succeeded(r) == r.ret.success = "true"

\* the completions that run clearAuth: logout's finally block, the catch
\* blocks of refreshToken and checkAuth
TearsDown(op, resp) ==
    \/ op = "logout"
    \/ op \in {"refresh", "checkAuth"} /\ resp.kind \in {"401", "error"}

\* the history variable after the completion of op
Torn(op, resp, r) ==
    IF TearsDown(op, resp) THEN TRUE
    ELSE IF op \in {"login", "register"} /\ Succeeded(r) THEN FALSE
    ELSE torn

\* a completion that issues the request once more when the call failed with
\* a server or network error
Return_retryOnError(op, resp, r) ==
    /\ inflight[op] > 0
    /\ r.c.nextTimerId <= MaxTimers + 1
    /\ inflight' = IF resp.kind = "error" THEN inflight
                   ELSE [inflight EXCEPT ![op] = @ - 1]
    /\ ev' = Event(op, "return", resp, r.ret, r.c, IF resp.kind = "error" THEN 1 ELSE 0)
    /\ Apply(r.c)
    /\ torn' = Torn(op, resp, r)

\* the awaited call completes with resp and the operation runs to its return
Return(op, resp, r) ==
    /\ inflight[op] > 0
    /\ r.c.nextTimerId <= MaxTimers + 1
    /\ inflight' = [inflight EXCEPT ![op] = @ - 1]
    /\ ev' = Event(op, "return", resp, r.ret, r.c, 0)
    /\ Apply(r.c)
    /\ torn' = Torn(op, resp, r)

\* ------------------------------------- the application shell (main.js)
\* The views with a nav link, those of them with a `<name>-view` element in
\* the page, and those whose module is on window, so that the loader awaits
\* its init(); the other loaders write a placeholder and return.
Views == {"dashboard", "contacts", "integrations"}
ViewElements == {"dashboard", "contacts"}
AsyncLoaders == {"dashboard"}

RouterEvent(op, view, outcome) == [op |-> op, view |-> view, outcome |-> outcome]

\* the page as parsed and `new AgenticCRM()` run up to init's
\* `await auth.checkAuth()`
RouterConstructed ==
    /\ initPhase = "checking"
    /\ authResult = "none"
    /\ loginHidden = TRUE
    /\ mainHidden = TRUE
    /\ loadingHidden = FALSE
    /\ hideTimer = FALSE
    /\ currentView = "dashboard"
    /\ navItem = "dashboard"
    /\ active = {"dashboard"}
    /\ loaded = [v \in Views |-> FALSE]
    /\ loads = [v \in Views |-> 0]
    /\ navs = [v \in Views |-> 0]
    /\ loginPending = FALSE
    /\ logoutPending = FALSE
    /\ rev = RouterEvent("constructor", "none", "none")

\* -------------------------------------------------------------- actions
Init ==
    /\ token = Null
    /\ currentUser = Null
    /\ refreshTimer = Unset
    /\ localStorage \in [Keys -> {NoItem}]
                        \cup {[k \in Keys |-> IF k = TOKEN_KEY THEN stringify(t)
                                                               ELSE stringify(u)] :
                                 t \in Tokens, u \in Users}
    /\ pendingTimers = {}
    /\ nextTimerId = 1
    /\ inflight = [op \in Ops |-> 0]
    /\ onLoginPath \in BOOLEAN
    /\ navPending = FALSE
    /\ sess = "none"
    /\ torn = FALSE
    /\ RouterConstructed
    /\ ev = Event("init", "none", NoResponse, Undefined, Ctx, 0)

LoginCall == Call("login") /\ sess' = "none"

LoginReturn ==
    \E resp \in AuthResponses :
        LET r == login(Ctx, resp) IN
        /\ Return("login", resp, r)
        /\ sess' = IF Succeeded(r) /\ InFlightCount = 1 THEN "in" ELSE "none"

RegisterCall == Call("register") /\ sess' = "none"

RegisterReturn ==
    \E resp \in AuthResponses :
        LET r == register(Ctx, resp) IN
        /\ Return("register", resp, r)
        /\ sess' = "none"

\* logout with a token held: awaits api.logout()
LogoutCall ==
    /\ Truthy(token)
    /\ Call("logout")
    /\ sess' = IF sess = "in" THEN "leaving" ELSE "none"

\* logout with no token held: no await, the finally block runs at once
LogoutNoToken ==
    /\ ~Truthy(token)
    /\ LET r == logoutFinally(Ctx) IN
        /\ ev' = Event("logout", "return", NoResponse, r.ret, r.c, 0)
        /\ Apply(r.c)
    /\ sess' = IF sess = "in" THEN "out" ELSE "none"
    /\ torn' = TRUE
    /\ UNCHANGED inflight

LogoutReturn ==
    \E resp \in VoidResponses :
        /\ Return("logout", resp, logout(Ctx, resp))
        /\ sess' = IF sess = "leaving" THEN "out" ELSE sess

UpdateProfileCall == Call("updateProfile") /\ sess' = "none"

UpdateProfileReturn ==
    \E resp \in ProfileResponses :
        /\ Return("updateProfile", resp, updateProfile(Ctx, resp))
        /\ UNCHANGED sess

ChangePasswordCall == Call("changePassword") /\ sess' = "none"

ChangePasswordReturn ==
    \E resp \in VoidResponses :
        /\ Return("changePassword", resp, changePassword(Ctx, resp))
        /\ UNCHANGED sess

\* checkAuth while locally unauthenticated: returns false, no request
CheckAuthAnonymous ==
    /\ ~isAuthenticated(Ctx)
    /\ ev' = Event("checkAuth", "return", NoResponse, Result("false", Null, "none"), Ctx, 0)
    /\ Apply(Ctx)
    /\ sess' = "none"
    /\ UNCHANGED <<inflight, torn>>

CheckAuthCall ==
    /\ isAuthenticated(Ctx)
    /\ Call("checkAuth")
    /\ sess' = "none"

CheckAuthReturn ==
    \E resp \in ProfileResponses :
        /\ Return("checkAuth", resp, checkAuth(Ctx, resp))
        /\ UNCHANGED sess

\* a pending timer fires: its callback calls refreshToken(), which awaits
TimerFire ==
    \E id \in pendingTimers :
        /\ InFlightCount < MaxInFlight
        /\ pendingTimers' = pendingTimers \ {id}
        /\ inflight' = [inflight EXCEPT !["refresh"] = @ + 1]
        /\ ev' = [Event("timer", "call", NoResponse, Undefined, Ctx, 1) EXCEPT !.timer = id]
        /\ UNCHANGED <<token, currentUser, refreshTimer, localStorage, nextTimerId,
                       onLoginPath, navPending, sess, torn>>
        /\ UNCHANGED rvars

RefreshReturn ==
    \E resp \in RefreshResponses :
        /\ Return("refresh", resp, refreshToken(Ctx, resp))
        /\ UNCHANGED sess

\* the navigation started by `window.location.href = '/login'` commits: the
\* page and everything in it is replaced, the store survives
PageLoad ==
    /\ navPending
    /\ token' = Null
    /\ currentUser' = Null
    /\ refreshTimer' = Unset
    /\ pendingTimers' = {}
    /\ nextTimerId' = 1
    /\ inflight' = [op \in Ops |-> 0]
    /\ onLoginPath' = TRUE
    /\ navPending' = FALSE
    /\ sess' = "none"
    /\ torn' = FALSE
    /\ ev' = Event("pageload", "none", NoResponse, Undefined, [redirects |-> 0, notes |-> <<>>], 0)
    /\ UNCHANGED localStorage
    /\ UNCHANGED rvars

Next ==
    \/ LoginCall \/ LoginReturn
    \/ RegisterCall \/ RegisterReturn
    \/ LogoutCall \/ LogoutNoToken \/ LogoutReturn
    \/ UpdateProfileCall \/ UpdateProfileReturn
    \/ ChangePasswordCall \/ ChangePasswordReturn
    \/ CheckAuthAnonymous \/ CheckAuthCall \/ CheckAuthReturn
    \/ TimerFire \/ RefreshReturn
    \/ PageLoad

Spec == Init /\ [][Next]_vars

\* ------------------------------------------------ the shell's handlers
NavCount == navs["dashboard"] + navs["contacts"] + navs["integrations"]

\* the overlay #loading-screen (position fixed, z-index 9999) covers the page
\* until hideLoadingScreen's timer hides it: nothing under it can be clicked
Clickable == loadingHidden

showLoginScreen == loginHidden' = FALSE /\ mainHidden' = TRUE

\* showMainApp that hides the login screen and forgets to show #main-app
showMainApp_keepHidden == loginHidden' = TRUE /\ UNCHANGED mainHidden

\* showMainApp's class changes (its call of initializeMainApp is in the action)
showMainApp == loginHidden' = TRUE /\ mainHidden' = FALSE

redirectToApp == loginHidden' = TRUE /\ mainHidden' = FALSE

hideLoadingScreen == hideTimer' = TRUE

\* loadViewContent that never looks at the flag
alreadyLoaded_never(v) == FALSE

\* loadViewContent's `viewElement.dataset.loaded === 'true'`
alreadyLoaded(v) == loaded[v]

\* navigateToView(v) suspends at `await this.showView(v)`
Suspends(v) ==
    /\ currentView # v
    /\ v \in ViewElements
    /\ ~alreadyLoaded(v)
    /\ v \in AsyncLoaders

\* what a navigateToView(v) run up to its await, or to its return, does
Outcome(v) ==
    IF currentView = v THEN "same"
    ELSE IF v \notin ViewElements THEN "missing"
    ELSE IF alreadyLoaded(v) THEN "shown"
    ELSE IF v \in AsyncLoaders THEN "loading"
    ELSE "loaded"

\* navigateToView up to its first suspension: updateNavigation,
\* updatePageHeader, showView, loadViewContent and, when nothing is awaited,
\* the assignment of currentView
navigateToView(v) ==
    IF currentView = v
    THEN UNCHANGED <<currentView, navItem, active, loaded, loads, navs>>
    ELSE /\ navItem' = v
         /\ active' = {v} \cap ViewElements
         /\ IF v \notin ViewElements \/ alreadyLoaded(v)
            THEN /\ currentView' = v
                 /\ UNCHANGED <<loaded, loads, navs>>
            ELSE IF v \in AsyncLoaders
            THEN /\ loads' = [loads EXCEPT ![v] = @ + 1]
                 /\ navs' = [navs EXCEPT ![v] = @ + 1]
                 /\ UNCHANGED <<currentView, loaded>>
            ELSE /\ loads' = [loads EXCEPT ![v] = @ + 1]
                 /\ loaded' = [loaded EXCEPT ![v] = TRUE]
                 /\ currentView' = v
                 /\ UNCHANGED navs

\* the state of the shell's environment while the shell is looked at alone
AuthConstructed ==
    /\ token = Null
    /\ currentUser = Null
    /\ refreshTimer = Unset
    /\ localStorage = [k \in Keys |-> NoItem]
    /\ pendingTimers = {}
    /\ nextTimerId = 1
    /\ inflight = [op \in Ops |-> 0]
    /\ onLoginPath = FALSE
    /\ navPending = FALSE
    /\ sess = "none"
    /\ torn = FALSE
    /\ ev = Event("init", "none", NoResponse, Undefined, Ctx, 0)

RouterInit == RouterConstructed /\ AuthConstructed

\* init from the completion of `await auth.checkAuth()`: showMainApp and
\* initializeMainApp up to `await this.loadNotifications()`, or
\* showLoginScreen and the finally block.  checkAuth, navigateToView and
\* loadNotifications catch their own failures, so init's catch block is not
\* entered from here.  setupPeriodicRefresh's intervals (checkAuth,
\* loadNotifications) touch nothing of the shell.
InitCheckAuthReturn ==
    \E isAuthenticatedResult \in BOOLEAN :
        /\ initPhase = "checking"
        /\ authResult' = IF isAuthenticatedResult THEN "true" ELSE "false"
        /\ IF isAuthenticatedResult
           THEN /\ showMainApp
                /\ navigateToView("dashboard")
                /\ initPhase' = IF Suspends("dashboard") THEN "navigating"
                                                         ELSE "notifications"
                /\ UNCHANGED hideTimer
           ELSE /\ showLoginScreen
                /\ hideLoadingScreen
                /\ initPhase' = "done"
                /\ UNCHANGED <<currentView, navItem, active, loaded, loads, navs>>
        /\ rev' = RouterEvent("checkAuth", "none", authResult')
        /\ UNCHANGED <<loadingHidden, loginPending, logoutPending>>
        /\ UNCHANGED avars

\* initializeMainApp's `await this.loadNotifications()` completes (it catches
\* its own failure), showMainApp returns and init's finally block runs
InitNotificationsReturn ==
    /\ initPhase = "notifications"
    /\ initPhase' = "done"
    /\ hideLoadingScreen
    /\ rev' = RouterEvent("notifications", "none", "none")
    /\ UNCHANGED <<authResult, loginHidden, mainHidden, loadingHidden, currentView,
                   navItem, active, loaded, loads, navs, loginPending, logoutPending>>
    /\ UNCHANGED avars

\* hideLoadingScreen's timer fires
HideLoadingTimer ==
    /\ hideTimer
    /\ hideTimer' = FALSE
    /\ loadingHidden' = TRUE
    /\ rev' = RouterEvent("hideLoading", "none", "none")
    /\ UNCHANGED <<initPhase, authResult, loginHidden, mainHidden, currentView,
                   navItem, active, loaded, loads, navs, loginPending, logoutPending>>
    /\ UNCHANGED avars

\* a click on a nav link of #main-app: navigateToView(view) up to its await
NavigateCall ==
    \E v \in Views :
        /\ Clickable /\ ~mainHidden
        /\ Suspends(v) => (NavCount < MaxNavs /\ loads[v] < MaxLoads)
        /\ navigateToView(v)
        /\ rev' = RouterEvent("navigate", v, Outcome(v))
        /\ UNCHANGED <<initPhase, authResult, loginHidden, mainHidden, loadingHidden,
                       hideTimer, loginPending, logoutPending>>
        /\ UNCHANGED avars

\* the loader a navigateToView(v) awaits resolves or throws: loadViewContent
\* sets the flag or renders the error state, navigateToView sets currentView
NavigateReturn ==
    \E v \in Views, ok \in BOOLEAN :
        /\ navs[v] > 0
        /\ navs' = [navs EXCEPT ![v] = @ - 1]
        /\ loaded' = IF ok THEN [loaded EXCEPT ![v] = TRUE] ELSE loaded
        /\ currentView' = v
        /\ initPhase' = IF initPhase = "navigating" /\ v = "dashboard"
                        THEN "notifications" ELSE initPhase
        /\ rev' = RouterEvent("viewLoaded", v, IF ok THEN "ok" ELSE "failed")
        /\ UNCHANGED <<authResult, loginHidden, mainHidden, loadingHidden, hideTimer,
                       navItem, active, loads, loginPending, logoutPending>>
        /\ UNCHANGED avars

\* LoginForm.handleSubmit up to `await auth.login(...)`; setLoading(true)
\* disables the submit button until it returns
HandleSubmitCall ==
    /\ Clickable /\ ~loginHidden /\ ~loginPending
    /\ loginPending' = TRUE
    /\ rev' = RouterEvent("submit", "none", "none")
    /\ UNCHANGED <<initPhase, authResult, loginHidden, mainHidden, loadingHidden,
                   hideTimer, currentView, navItem, active, loaded, loads, navs,
                   logoutPending>>
    /\ UNCHANGED avars

\* auth.login returns to LoginForm.handleSubmit
HandleSubmitReturn ==
    \E success \in BOOLEAN :
        /\ loginPending
        /\ loginPending' = FALSE
        /\ IF success THEN redirectToApp ELSE UNCHANGED <<loginHidden, mainHidden>>
        /\ rev' = RouterEvent("login", "none", IF success THEN "ok" ELSE "failed")
        /\ UNCHANGED <<initPhase, authResult, loadingHidden, hideTimer, currentView,
                       navItem, active, loaded, loads, navs, logoutPending>>
        /\ UNCHANGED avars

\* UserProfile.handleLogout (the user menu of #main-app) up to
\* `await auth.logout()`
HandleLogoutCall ==
    /\ Clickable /\ ~mainHidden /\ ~logoutPending
    /\ logoutPending' = TRUE
    /\ rev' = RouterEvent("logoutClick", "none", "none")
    /\ UNCHANGED <<initPhase, authResult, loginHidden, mainHidden, loadingHidden,
                   hideTimer, currentView, navItem, active, loaded, loads, navs,
                   loginPending>>
    /\ UNCHANGED avars

\* auth.logout returns (it never rejects): the login screen is shown
HandleLogoutReturn ==
    /\ logoutPending
    /\ logoutPending' = FALSE
    /\ mainHidden' = TRUE
    /\ loginHidden' = FALSE
    /\ rev' = RouterEvent("logout", "none", "none")
    /\ UNCHANGED <<initPhase, authResult, loadingHidden, hideTimer, currentView,
                   navItem, active, loaded, loads, navs, loginPending>>
    /\ UNCHANGED avars

RouterNext ==
    \/ InitCheckAuthReturn \/ InitNotificationsReturn \/ HideLoadingTimer
    \/ NavigateCall \/ NavigateReturn
    \/ HandleSubmitCall \/ HandleSubmitReturn
    \/ HandleLogoutCall \/ HandleLogoutReturn

RouterSpec == RouterInit /\ [][RouterNext]_vars

\* ------------------------------------------------------------ properties
Authenticated == token # Null /\ currentUser # Null
Anonymous == token = Null /\ currentUser = Null
StoredToken == storageGet(localStorage, TOKEN_KEY)
StoredUser == storageGet(localStorage, USER_KEY)
StoreEmpty == localStorage[TOKEN_KEY] = NoItem /\ localStorage[USER_KEY] = NoItem
Returned(op) == ev.op = op /\ ev.phase = "return"
Rejected(resp) == resp.kind \in {"401", "error"}

\* C1: in every reachable state the in-memory session is whole or absent:
\* token and currentUser are both null or both non-null.
SessionWholeOrAbsent == (token = Null) <=> (currentUser = Null)

\* C2: isAuthenticated() goes from false to true only in the step in which a
\* login or a register returns success; no completion of refreshToken,
\* updateProfile or checkAuth, alone or combined, makes it true.
AuthenticatedOnlyByLogin ==
    [][(~Authenticated /\ Authenticated')
         => (ev'.op \in {"login", "register"} /\ ev'.phase = "return"
             /\ ev'.ret.success = "true")]_vars

\* C3: when a login has succeeded, logout is the next call made and it has
\* returned, and the caller has started nothing else, the state this sequence
\* settles in (no call left in flight) is ANONYMOUS and the store holds
\* neither key.
LoginThenLogoutEndsAnonymous ==
    (sess = "out" /\ InFlightCount = 0) => (Anonymous /\ StoreEmpty)

\* C4: when login or register returns from a response carrying access_token
\* and user, the in-memory token and user are the response's, the store holds
\* the same two values, exactly one refresh timer is pending and the call
\* returned {success: true, user} with that user.
AuthSuccessCase ==
    /\ ev.op \in {"login", "register"} /\ ev.phase = "return"
    /\ ev.resp.kind = "ok" /\ Truthy(ev.resp.access_token) /\ Truthy(ev.resp.user)

LoginSuccessEstablishesSession ==
    AuthSuccessCase =>
        /\ token = ev.resp.access_token
        /\ currentUser = ev.resp.user
        /\ StoredToken = ev.resp.access_token
        /\ StoredUser = ev.resp.user
        /\ Cardinality(pendingTimers) = 1
        /\ pendingTimers = {refreshTimer}
        /\ ev.ret = Result("true", ev.resp.user, "none")

LoginSuccessWitness ==
    AuthSuccessCase /\ ev.op = "register" /\ ev.resp.access_token = "T2" /\ refreshTimer = 2

\* C5: when login or register fails (the call rejects, or the response
\* lacks access_token or user) it returns {success: false, error: message}
\* and leaves the in-memory token, the in-memory user and the timer as they
\* were before the step.
AuthFailureCase ==
    /\ ev.op \in {"login", "register"} /\ ev.phase = "return"
    /\ (Rejected(ev.resp) \/ ~Truthy(ev.resp.access_token) \/ ~Truthy(ev.resp.user))

LoginFailureKeepsSession ==
    [][AuthFailureCase' =>
         /\ ev'.ret.success = "false" /\ ev'.ret.error # "none" /\ ev'.ret.user = Null
         /\ token' = token
         /\ currentUser' = currentUser
         /\ refreshTimer' = refreshTimer
         /\ pendingTimers' = pendingTimers]_vars

LoginFailureWitness ==
    /\ AuthFailureCase /\ ev.op = "login" /\ ev.resp.kind = "ok" /\ ev.resp.user = Null
    /\ Authenticated /\ pendingTimers # {}

\* C6: whenever logout returns (server call succeeded, rejected, or skipped
\* because no token was held) the in-memory token and user are null, both
\* store keys are removed, no refresh timer is pending or held, and the
\* logout notification was emitted exactly once.
LogoutAlwaysTearsDown ==
    Returned("logout") =>
        /\ Anonymous
        /\ StoreEmpty
        /\ pendingTimers = {}
        /\ refreshTimer \in {Unset, NoTimer}
        /\ ev.notes = <<"logout">>

LogoutRejectedWitness ==
    Returned("logout") /\ Rejected(ev.resp) /\ refreshTimer = NoTimer /\ sess = "out"

\* C7: when refreshToken returns from a response carrying access_token, the
\* in-memory and the persisted token are the new one, the user in memory and
\* in the store is as before the step, and exactly one timer is pending.
RefreshSuccessCase ==
    Returned("refresh") /\ ev.resp.kind = "ok" /\ Truthy(ev.resp.access_token)

RefreshReplacesTokenOnly ==
    [][RefreshSuccessCase' =>
         /\ token' = ev'.resp.access_token
         /\ StoredToken' = ev'.resp.access_token
         /\ currentUser' = currentUser
         /\ localStorage'[USER_KEY] = localStorage[USER_KEY]
         /\ Cardinality(pendingTimers') = 1
         /\ pendingTimers' = {refreshTimer'}]_vars

RefreshSuccessWitness ==
    RefreshSuccessCase /\ ev.resp.access_token = "T2" /\ currentUser = "U1" /\ refreshTimer = 3

\* C8: when the refresh call rejects, refreshToken leaves token and user
\* null, the store keys removed, no timer pending, and has invoked the
\* redirect to the login surface exactly once.
RefreshFailureRedirectsOnce ==
    (Returned("refresh") /\ Rejected(ev.resp)) =>
        /\ Anonymous
        /\ StoreEmpty
        /\ pendingTimers = {}
        /\ ev.redirects = 1

\* C9: at most one refresh timer is pending, and it is the one whose handle
\* the service holds: arming and teardown clear the held handle first.
AtMostOnePendingTimer ==
    /\ Cardinality(pendingTimers) <= 1
    /\ pendingTimers \subseteq {refreshTimer}

RearmedTimerWitness ==
    /\ pendingTimers = {3} /\ refreshTimer = 3
    /\ Returned("login") /\ ev.ret.success = "true" /\ inflight["refresh"] = 1

\* C10: a timer that fires is the pending one the service holds (never a
\* cleared one) and starts exactly one refresh request; refresh requests
\* start no other way; the refresh re-arms a timer exactly when its response
\* carried a token, and a failed refresh leaves no timer pending.
TimerDrivesRefreshOnce ==
    [][/\ ev'.op = "timer" =>
            /\ ev'.timer \in pendingTimers
            /\ ev'.timer = refreshTimer
            /\ ev'.timer \notin pendingTimers'
            /\ ev'.requests = 1
            /\ inflight'["refresh"] = inflight["refresh"] + 1
       /\ inflight'["refresh"] > inflight["refresh"] => ev'.op = "timer"
       /\ Returned("refresh")' =>
            /\ inflight'["refresh"] = inflight["refresh"] - 1
            /\ Rejected(ev'.resp) => pendingTimers' = {}
            /\ (ev'.resp.kind = "ok" /\ ~Truthy(ev'.resp.access_token))
                   => (pendingTimers' = pendingTimers /\ refreshTimer' = refreshTimer)
            /\ (refreshTimer' # refreshTimer /\ refreshTimer' \in pendingTimers')
                   <=> RefreshSuccessCase']_vars

FailedRefreshWitness ==
    /\ Returned("refresh") /\ Rejected(ev.resp)
    /\ refreshTimer = NoTimer /\ nextTimerId = 3 /\ inflight["login"] = 0

\* C11: at startup (construction, or the page load after a redirect) the
\* service is AUTHENTICATED exactly when the store holds both the token key
\* and the user key, ANONYMOUS otherwise, and no request has been issued.
Startup == ev.op \in {"init", "pageload"}

StartupStateFromStore ==
    Startup =>
        /\ Authenticated <=> (StoredToken # Null /\ StoredUser # Null)
        /\ Authenticated => (token = StoredToken /\ currentUser = StoredUser)
        /\ ~Authenticated => Anonymous
        /\ ev.requests = 0 /\ InFlightCount = 0

\* C12: after any API call has been answered with HTTP 401, whichever the
\* endpoint, the in-memory token and user are null and the store holds
\* neither key.
Got401 == ev.phase = "return" /\ ev.resp.kind = "401"

AuthErrorDestroysSession == Got401 => (Anonymous /\ StoreEmpty)

\* C13: checkAuth invoked while token or user is null returns false in the
\* same step, issues no request and changes nothing of the session.
CheckAuthInvoked == ev.op = "checkAuth" /\ ev.resp = NoResponse

CheckAuthAnonymousShortCircuits ==
    [][(CheckAuthInvoked' /\ ~Authenticated) =>
         /\ ev'.phase = "return" /\ ev'.ret.success = "false"
         /\ ev'.requests = 0 /\ inflight' = inflight
         /\ UNCHANGED <<token, currentUser, refreshTimer, localStorage,
                        pendingTimers, nextTimerId>>]_vars

CheckAuthHalfSessionWitness ==
    /\ CheckAuthInvoked /\ ev.phase = "return"
    /\ token # Null /\ currentUser = Null /\ pendingTimers # {}

\* C14: when checkAuth's profile call rejects (HTTP 401, any other HTTP
\* error, a network failure) checkAuth leaves token and user null, both
\* store keys removed, no timer pending or held, and returns false.
CheckAuthFailureClearsSession ==
    (Returned("checkAuth") /\ Rejected(ev.resp)) =>
        /\ Anonymous
        /\ StoreEmpty
        /\ pendingTimers = {}
        /\ refreshTimer \in {Unset, NoTimer}
        /\ ev.ret.success = "false"

CheckAuthFailureWitness ==
    Returned("checkAuth") /\ ev.resp.kind = "error" /\ refreshTimer = NoTimer

\* C15, as claimed: the redirect to the login surface is invoked only by a
\* failed token refresh.
RedirectOnlyOnRefreshFailure ==
    ev.redirects > 0 => (Returned("refresh") /\ Rejected(ev.resp))

\* C15, amended: the redirect is invoked only by a failed token refresh or
\* by an API call answered with HTTP 401 while the page is not on the login
\* path; no other failure of any operation invokes it.
RedirectOnlyOnRefreshFailureOr401 ==
    ev.redirects > 0 =>
        \/ Returned("refresh") /\ Rejected(ev.resp)
        \/ Got401 /\ ~onLoginPath

RedirectOn401Witness ==
    Returned("changePassword") /\ Got401 /\ ev.redirects = 1 /\ ~onLoginPath

\* C16: when updateProfile returns from a response carrying a user, the
\* in-memory and the persisted user are the response's and it returned
\* {success: true, user}; the token in memory and in the store and the timer
\* are as before the step.
UpdateSuccessCase ==
    Returned("updateProfile") /\ ev.resp.kind = "ok" /\ Truthy(ev.resp.user)

UpdateProfileReplacesUserOnly ==
    [][UpdateSuccessCase' =>
         /\ currentUser' = ev'.resp.user
         /\ StoredUser' = ev'.resp.user
         /\ ev'.ret = Result("true", ev'.resp.user, "none")
         /\ token' = token
         /\ localStorage'[TOKEN_KEY] = localStorage[TOKEN_KEY]
         /\ refreshTimer' = refreshTimer
         /\ pendingTimers' = pendingTimers]_vars

UpdateSuccessWitness ==
    UpdateSuccessCase /\ currentUser = "U2" /\ token = "T1" /\ pendingTimers # {}

\* C17, as claimed: a failed updateProfile returns a failure result with a
\* message and leaves the in-memory token and user, the persisted token and
\* user, and the timer as before the step.
UpdateFailureCase == Returned("updateProfile") /\ Rejected(ev.resp)

UpdateFailureKeepsMemory ==
    /\ ev'.ret.success = "false" /\ ev'.ret.error # "none"
    /\ token' = token
    /\ currentUser' = currentUser
    /\ refreshTimer' = refreshTimer
    /\ pendingTimers' = pendingTimers

UpdateFailureLeavesAllUntouched ==
    [][UpdateFailureCase' =>
         (UpdateFailureKeepsMemory /\ localStorage' = localStorage)]_vars

\* C17, amended: a failed updateProfile returns a failure result with a
\* message and leaves the in-memory token and user and the timer as before;
\* the persisted token and user are as before too unless the failure was an
\* HTTP 401, which removes both store keys.
UpdateFailureLeavesMemoryUntouched ==
    [][UpdateFailureCase' =>
         /\ UpdateFailureKeepsMemory
         /\ ev'.resp.kind # "401" => localStorage' = localStorage
         /\ ev'.resp.kind = "401" => StoreEmpty']_vars

UpdateFailure401Witness ==
    UpdateFailureCase /\ Got401 /\ Authenticated /\ pendingTimers # {}

\* C18, as claimed: changePassword leaves the in-memory token and user, the
\* store and the timer as they were on either outcome, returning
\* {success: true} on success and a failure result with a message on failure.
ChangePasswordResult ==
    /\ ev'.resp.kind = "ok" => ev'.ret = Result("true", Null, "none")
    /\ Rejected(ev'.resp) => (ev'.ret.success = "false" /\ ev'.ret.error # "none")
    /\ token' = token
    /\ currentUser' = currentUser
    /\ refreshTimer' = refreshTimer
    /\ pendingTimers' = pendingTimers

ChangePasswordMutatesNothing ==
    [][Returned("changePassword")' =>
         (ChangePasswordResult /\ localStorage' = localStorage)]_vars

\* C18, amended: changePassword leaves the in-memory token and user and the
\* timer as they were on either outcome, and the store too unless the call
\* was answered with HTTP 401, which removes both store keys; it returns
\* {success: true} on success and a failure result with a message on failure.
ChangePasswordMutatesNoMemory ==
    [][Returned("changePassword")' =>
         /\ ChangePasswordResult
         /\ ev'.resp.kind # "401" => localStorage' = localStorage
         /\ ev'.resp.kind = "401" => StoreEmpty']_vars

ChangePasswordWitness ==
    /\ Returned("changePassword") /\ ev.resp.kind = "ok"
    /\ Authenticated /\ ~StoreEmpty /\ pendingTimers # {}

\* C19: isAuthenticated() is true exactly when the in-memory token and the
\* in-memory user are both non-null, and false with one or none of them set.
IsAuthenticatedIffBothSet ==
    isAuthenticated(Ctx) <=> (token # Null /\ currentUser # Null)

OnlyUserSetWitness ==
    ~isAuthenticated(Ctx) /\ token = Null /\ currentUser # Null

\* C20: a teardown (clearAuth) run while no timer is pending (the handle
\* unset, already null, or of a timer that has fired) leaves no timer
\* pending, leaves an unset or null handle as it is, and starts no refresh.
TeardownStep ==
    \/ Returned("logout")
    \/ Returned("refresh") /\ Rejected(ev.resp)
    \/ Returned("checkAuth") /\ Rejected(ev.resp)

CancelWithoutTimerIsNoOp ==
    [][(TeardownStep' /\ pendingTimers = {}) =>
         /\ pendingTimers' = {}
         /\ refreshTimer' \in {Unset, NoTimer}
         /\ refreshTimer \in {Unset, NoTimer} => refreshTimer' = refreshTimer
         /\ nextTimerId' = nextTimerId
         /\ inflight'["refresh"] <= inflight["refresh"]]_vars

CancelAfterFiringWitness ==
    /\ Returned("logout") /\ ev.resp.kind = "ok"
    /\ refreshTimer = NoTimer /\ nextTimerId = 2 /\ inflight["refresh"] = 1

\* C21: no retries: the step in which an operation is invoked issues exactly
\* one request, and the step in which that request completes, successfully
\* or not, issues none: the invocation leaves the calls in flight one fewer
\* and no operation's in-flight count ever rises except by its own invocation.
NoRetries ==
    [][/\ ev'.requests \in {0, 1}
       /\ ev'.phase = "call" => (ev'.requests = 1 /\ InFlightCount' = InFlightCount + 1)
       /\ ev'.phase = "return" =>
            /\ ev'.requests = 0
            /\ InFlightCount' <= InFlightCount
            /\ ev'.resp # NoResponse => InFlightCount' = InFlightCount - 1
       /\ \A op \in Ops :
            inflight'[op] > inflight[op] =>
                (ev'.phase = "call" /\ inflight'[op] = inflight[op] + 1)]_vars

FailedCallNotRetriedWitness ==
    /\ Returned("register") /\ ev.resp.kind = "error" /\ ev.requests = 0
    /\ InFlightCount = 0 /\ pendingTimers = {}

\* C25: whenever the session is AUTHENTICATED and no refresh request is in
\* flight, exactly one refresh timer is pending.
AuthenticatedHasTimer ==
    (Authenticated /\ inflight["refresh"] = 0) => Cardinality(pendingTimers) = 1

\* C26: from a teardown (logout returned, refresh failed, checkAuth failed)
\* until the next successful login or register no refresh timer is pending
\* and no refresh request is issued, whatever completes in between.
QuietAfterTeardown ==
    [][torn' => (pendingTimers' = {} /\ ev'.op # "timer")]_vars

\* C27: whenever no AuthService operation is mid-execution the store and the
\* in-memory session agree: the persisted token is the in-memory token and
\* the persisted user the in-memory user, both absent when those are null.
StoreAgreesWithMemory ==
    InFlightCount = 0 => (StoredToken = token /\ StoredUser = currentUser)

\* C28: whenever checkAuth returns, isAuthenticated() evaluated right after
\* equals the value it returned.
CheckAuthResultMatchesSession ==
    Returned("checkAuth") => ((ev.ret.success = "true") <=> isAuthenticated(Ctx))

\* C29: every updateProfile call resolves to a result record whose success
\* field is true or false, never to undefined.
UpdateProfileAlwaysReturnsResult ==
    Returned("updateProfile") => ev.ret.success \in {"true", "false"}

\* C22: start-up gates the display on checkAuth: in the step in which init
\* finishes, #main-app is visible and the login screen hidden if checkAuth
\* returned true, the login screen is visible and #main-app hidden if it
\* returned false; and no step leaves both visible.
InitFinishes == initPhase # "done" /\ initPhase' = "done"

InitGatesDisplay ==
    [][/\ ~(~loginHidden' /\ ~mainHidden')
       /\ InitFinishes =>
            /\ authResult' \in {"true", "false"}
            /\ authResult' = "true" => (~mainHidden' /\ loginHidden')
            /\ authResult' = "false" => (~loginHidden' /\ mainHidden')]_vars

InitShowsMainAppWitness ==
    /\ initPhase = "done" /\ rev.op = "notifications" /\ authResult = "true"
    /\ ~mainHidden /\ loginHidden

\* C23: in the step in which init finishes after checkAuth returned true,
\* the dashboard's loader has run once and the dashboard is marked loaded.
InitLoadsDashboard ==
    [][(InitFinishes /\ authResult' = "true") =>
         (loads'["dashboard"] = 1 /\ loaded'["dashboard"])]_vars

\* C24: once a view's flag is set no step starts its loader again and the
\* flag stays set; the step in which a loader fails starts no loader and
\* leaves the flag as it was; a navigation to another view whose flag is
\* unset starts that view's loader (once).
ViewLoadedAtMostOnce ==
    [][\A v \in Views :
         /\ loaded[v] => (loaded'[v] /\ loads'[v] = loads[v])
         /\ loads'[v] \in {loads[v], loads[v] + 1}
         /\ (rev'.op = "viewLoaded" /\ rev'.view = v /\ rev'.outcome = "failed")
                => (loaded'[v] = loaded[v] /\ loads'[v] = loads[v])
         /\ (rev'.op = "navigate" /\ rev'.view = v /\ currentView # v
               /\ v \in ViewElements /\ ~loaded[v])
                => loads'[v] = loads[v] + 1]_vars

LoadedViewShownWithoutLoadWitness ==
    /\ rev = RouterEvent("navigate", "dashboard", "shown")
    /\ loaded["dashboard"] /\ loads["dashboard"] = 2 /\ NavCount = 0

\* C30: whenever no navigation is in flight, the one view element carrying
\* the class active is the element of currentView.
CurrentViewIsDisplayed == NavCount = 0 => active = {currentView}

====
